---- MODULE Spec2Model ----
(***************************************************************************)
(* Auth-type negotiation of exchangelib/transport.py: the challenge        *)
(* classifier (_get_auth_method_from_response), the header tokenizer       *)
(* (_tokenize) and the three probes (get_autodiscover_authtype,            *)
(* get_docs_authtype, get_service_authtype), the response validator        *)
(* (_test_response), get_auth_instance and the envelope builder (wrap).     *)
(*                                                                         *)
(* Text is a sequence of one-character strings, so that lower() and the    *)
(* character scan of _tokenize are computed as the code computes them.     *)
(***************************************************************************)
EXTENDS Integers, Sequences, FiniteSets, TLC

VARIABLES probe, pc, endpoint, versions, idx, sent, r, outcome, args

vars == <<probe, pc, endpoint, versions, idx, sent, r, outcome, args>>

(*------------------------------ bounds ----------------------------------*)

\* Longest version list a caller hands to the service probe.
MaxVersions == 3

\* Most words a www-authenticate header value is made of.
MaxWords == 3

\* Longest text handed to _tokenize on its own.
MaxLen == 5

\* Most pieces a response body is made of.
MaxPieces == 3

(*------------------------------- text -----------------------------------*)

UpperChars == <<"A", "B", "C", "D", "E", "F", "G", "H", "I", "J", "K", "L", "M",
                "N", "O", "P", "Q", "R", "S", "T", "U", "V", "W", "X", "Y", "Z">>

LowerChars == <<"a", "b", "c", "d", "e", "f", "g", "h", "i", "j", "k", "l", "m",
                "n", "o", "p", "q", "r", "s", "t", "u", "v", "w", "x", "y", "z">>

\* str.lower() on one character.
LowerChar(c) ==
    IF \E i \in 1..Len(UpperChars) : UpperChars[i] = c
    THEN LowerChars[CHOOSE i \in 1..Len(UpperChars) : UpperChars[i] = c]
    ELSE c

\* str.lower()
Lower(s) == [i \in 1..Len(s) |-> LowerChar(s[i])]

\* str.startswith(prefix)
StartsWith(s, prefix) ==
    /\ Len(s) >= Len(prefix)
    /\ SubSeq(s, 1, Len(prefix)) = prefix

Range(s) == {s[i] : i \in 1..Len(s)}

\* The literals the classifier compares with.
S_www_authenticate == <<"w", "w", "w", "-", "a", "u", "t", "h", "e", "n", "t", "i", "c", "a", "t", "e">>
S_digest == <<"d", "i", "g", "e", "s", "t">>
S_ntlm   == <<"n", "t", "l", "m">>
S_basic  == <<"b", "a", "s", "i", "c">>
S_realm  == <<"r", "e", "a", "l", "m">>

(*--------------------------- authentication enums -----------------------*)

NOAUTH  == "no authentication"
NTLM    == "NTLM"
BASIC   == "basic"
DIGEST  == "digest"
UNKNOWN == "unknown"

(*------------------------------ _tokenize -------------------------------*)

\* The loop that ends a token at a space or comma whether or not a quote is open.
RECURSIVE TokenizeFrom_SplitsInQuotes(_, _, _, _, _)
TokenizeFrom_SplitsInQuotes(val, i, tokens, token, quote) ==
    IF i > Len(val)
    THEN IF token # <<>> THEN Append(tokens, token) ELSE tokens
    ELSE LET c == val[i] IN
         IF c \in {" ", ","}
         THEN TokenizeFrom_SplitsInQuotes(val, i + 1,
                           IF token \notin {<<>>, <<",">>} THEN Append(tokens, token) ELSE tokens,
                           <<>>, quote)
         ELSE IF c = "\""
         THEN IF quote
              THEN TokenizeFrom_SplitsInQuotes(val, i + 1, Append(tokens, Append(token, c)),
                                               <<>>, FALSE)
              ELSE TokenizeFrom_SplitsInQuotes(val, i + 1, tokens, Append(token, c), TRUE)
         ELSE TokenizeFrom_SplitsInQuotes(val, i + 1, tokens, Append(token, c), quote)

\* The loop that does not emit the token when a quote closes.
RECURSIVE TokenizeFrom_NoEmitOnClose(_, _, _, _, _)
TokenizeFrom_NoEmitOnClose(val, i, tokens, token, quote) ==
    IF i > Len(val)
    THEN IF token # <<>> THEN Append(tokens, token) ELSE tokens
    ELSE LET c == val[i] IN
         IF c \in {" ", ","} /\ ~quote
         THEN TokenizeFrom_NoEmitOnClose(val, i + 1,
                           IF token \notin {<<>>, <<",">>} THEN Append(tokens, token) ELSE tokens,
                           <<>>, quote)
         ELSE IF c = "\""
         THEN TokenizeFrom_NoEmitOnClose(val, i + 1, tokens, Append(token, c), ~quote)
         ELSE TokenizeFrom_NoEmitOnClose(val, i + 1, tokens, Append(token, c), quote)

\* The loop of _tokenize from character i on, with the loop's three locals.
RECURSIVE TokenizeFrom(_, _, _, _, _)
TokenizeFrom(val, i, tokens, token, quote) ==
    IF i > Len(val)
    THEN IF token # <<>> THEN Append(tokens, token) ELSE tokens
    ELSE LET c == val[i] IN
         IF c \in {" ", ","} /\ ~quote
         THEN TokenizeFrom(val, i + 1,
                           IF token \notin {<<>>, <<",">>} THEN Append(tokens, token) ELSE tokens,
                           <<>>, quote)
         ELSE IF c = "\""
         THEN IF quote
              THEN TokenizeFrom(val, i + 1, Append(tokens, Append(token, c)), <<>>, FALSE)
              ELSE TokenizeFrom(val, i + 1, tokens, Append(token, c), TRUE)
         ELSE TokenizeFrom(val, i + 1, tokens, Append(token, c), quote)

_tokenize(val) == TokenizeFrom(val, 1, <<>>, <<>>, FALSE)

(*------------------------------ outcomes --------------------------------*)

NoUrl == [ssl |-> FALSE, server |-> "", path |-> ""]

\* A call's outcome: a returned value, or a raised exception with what it carries.
Return(v) ==
    [kind |-> "return", exc |-> "", value |-> v, msg |-> "", url |-> NoUrl,
     status |-> 0, reason |-> ""]

Raise(e, m) ==
    [kind |-> "raise", exc |-> e, value |-> "", msg |-> m, url |-> NoUrl,
     status |-> 0, reason |-> ""]

RaiseUrl(e, u) ==
    [kind |-> "raise", exc |-> e, value |-> "", msg |-> "", url |-> u,
     status |-> 0, reason |-> ""]

RaiseStatus(e, m, st, rs) ==
    [kind |-> "raise", exc |-> e, value |-> "", msg |-> m, url |-> NoUrl,
     status |-> st, reason |-> rs]

NoOutcome ==
    [kind |-> "none", exc |-> "", value |-> "", msg |-> "", url |-> NoUrl,
     status |-> 0, reason |-> ""]

\* The arguments of a call of one of the functions that take no response.
NoArgs == <<>>

ReturnUrl(u) ==
    [kind |-> "return", exc |-> "", value |-> "", msg |-> "", url |-> u,
     status |-> 0, reason |-> ""]

(*------------------------ collaborators outside transport.py ------------*)

\* errors.py: the exception classes an `except TransportError` clause catches.
\* UnauthorizedError and RedirectError reach the caller as distinct failures.
TransportErrorClasses == {"TransportError"}

IsTransportError(o) == o.kind = "raise" /\ o.exc \in TransportErrorClasses

\* util.get_redirect_url: the target of a 302 response, resolved against the URL
\* of the request.  A Location without a server is relative and inherits scheme
\* and server.  A missing Location, or a target equal to the source, fails.  With
\* allow_relative = FALSE a target on the request's scheme and host raises
\* RelativeRedirect; with require_relative = TRUE a target on another scheme or
\* host does.
RedirectTarget(response) ==
    IF response.location.relative
    THEN [ssl |-> response.url.ssl, server |-> response.url.server,
          path |-> response.location.path]
    ELSE [ssl |-> response.location.ssl, server |-> response.location.server,
          path |-> response.location.path]

SameSchemeAndHost(u, v) == u.ssl = v.ssl /\ u.server = v.server

get_redirect_url(response, allow_relative, require_relative) ==
    IF ~response.location.present
    THEN Raise("TransportError", "302 redirect but no location header")
    ELSE LET target == RedirectTarget(response) IN
         IF target = response.url
         THEN Raise("TransportError", "Redirect to same location")
         ELSE IF ~allow_relative /\ SameSchemeAndHost(target, response.url)
         THEN RaiseUrl("RelativeRedirect", target)
         ELSE IF require_relative /\ ~SameSchemeAndHost(target, response.url)
         THEN RaiseUrl("RelativeRedirect", target)
         ELSE ReturnUrl(target)

(*-------------------- _get_auth_method_from_response --------------------*)

\* v.split('=')[1] on a token that starts with 'realm' and holds no '=':
\* the list has one element and the index raises IndexError.
RealmSplitFails(vals) ==
    \E i \in 1..Len(vals) : StartsWith(vals[i], S_realm) /\ "=" \notin Range(vals[i])

\* The preference among the schemes one header offers; "" when it offers none.
PreferredScheme(vals) ==
    IF S_digest \in Range(vals) THEN DIGEST
    ELSE IF S_ntlm \in Range(vals) THEN NTLM
    ELSE IF S_basic \in Range(vals) THEN BASIC
    ELSE ""

\* `key.lower() == 'www-authenticate'`
IsChallengeHeader(key) == Lower(key) = S_www_authenticate

\* The loop over response.headers.items() from header i on.
RECURSIVE ScanHeaders(_, _)
ScanHeaders(headers, i) ==
    IF i > Len(headers)
    THEN Raise("UnauthorizedError",
               "Got a 401, but no compatible auth type was reported by server")
    ELSE IF IsChallengeHeader(headers[i].key)
    THEN LET vals == _tokenize(Lower(headers[i].val)) IN
         IF RealmSplitFails(vals)
         THEN Raise("IndexError", "list index out of range")
         ELSE IF PreferredScheme(vals) # ""
         THEN Return(PreferredScheme(vals))
         ELSE ScanHeaders(headers, i + 1)
    ELSE ScanHeaders(headers, i + 1)

\* The 302 branch asking the resolver with relative targets allowed.
ClassifyRedirect_AllowsRelative(response) ==
    LET got == get_redirect_url(response, TRUE, FALSE) IN
    IF got.kind = "raise" /\ got.exc = "RelativeRedirect"
    THEN Raise("TransportError", "Circular redirect")
    ELSE IF got.kind = "raise"
    THEN got
    ELSE RaiseUrl("RedirectError", got.url)

\* The 302 branch.
ClassifyRedirect(response) ==
    LET got == get_redirect_url(response, FALSE, FALSE) IN
    IF got.kind = "raise" /\ got.exc = "RelativeRedirect"
    THEN Raise("TransportError", "Circular redirect")
    ELSE IF got.kind = "raise"
    THEN got
    ELSE RaiseUrl("RedirectError", got.url)

\* The classifier without its `status_code != 401` test: any other status goes
\* on to the headers.
get_auth_method_headers_for_any_status(response) ==
    IF response.status_code = 200
    THEN Return(NOAUTH)
    ELSE IF response.status_code = 302
    THEN ClassifyRedirect(response)
    ELSE ScanHeaders(response.headers, 1)

\* The classifier that looks for a challenge before it looks at the status.
get_auth_method_headers_first(response) ==
    IF \E i \in 1..Len(response.headers) : IsChallengeHeader(response.headers[i].key)
    THEN ScanHeaders(response.headers, 1)
    ELSE IF response.status_code = 200
    THEN Return(NOAUTH)
    ELSE IF response.status_code = 302
    THEN ClassifyRedirect(response)
    ELSE IF response.status_code # 401
    THEN RaiseStatus("TransportError", "Unexpected response",
                     response.status_code, response.reason)
    ELSE ScanHeaders(response.headers, 1)

_get_auth_method_from_response(response) ==
    IF response.status_code = 200
    THEN Return(NOAUTH)
    ELSE IF response.status_code = 302
    THEN ClassifyRedirect(response)
    ELSE IF response.status_code # 401
    THEN RaiseStatus("TransportError", "Unexpected response",
                     response.status_code, response.reason)
    ELSE ScanHeaders(response.headers, 1)

(*------------------------- what a server may answer ---------------------*)

\* The words a server composes a challenge of.
W_Digest    == <<"D", "i", "g", "e", "s", "t">>
W_NTLM      == <<"N", "T", "L", "M">>
W_Basic     == <<"B", "a", "s", "i", "c">>
W_RealmAB   == <<"r", "e", "a", "l", "m", "=", "\"", "a", ",", " ", "b", "\"">>
W_RealmBare == <<"R", "e", "a", "l", "m">>

Words == {W_Digest, W_NTLM, W_Basic, W_RealmAB, W_RealmBare}

Separators == {<<",", " ">>, <<" ">>}

K_WWW_Authenticate == <<"W", "W", "W", "-", "A", "u", "t", "h", "e", "n", "t", "i", "c", "a", "t", "e">>
K_Server           == <<"S", "e", "r", "v", "e", "r">>

ChallengeKeys == {K_WWW_Authenticate, S_www_authenticate}

RECURSIVE Join(_, _)
Join(words, sep) ==
    IF Len(words) = 0 THEN <<>>
    ELSE IF Len(words) = 1 THEN words[1]
    ELSE words[1] \o sep \o Join(Tail(words), sep)

WordLists == UNION {[1..n -> Words] : n \in 0..MaxWords}

ChallengeValues == {Join(ws, sep) : ws \in WordLists, sep \in Separators}

\* A header every response carries, which is no challenge.
OtherHeader == [key |-> K_Server, val |-> W_Basic]

HeaderLists ==
    {<<OtherHeader>>} \cup
    {<<OtherHeader, [key |-> k, val |-> v]>> : k \in ChallengeKeys, v \in ChallengeValues}

\* The URL every probe of the model is sent to.
Endpoint == [ssl |-> TRUE, server |-> "h1", path |-> "/a"]

NoLocation == [present |-> FALSE, relative |-> FALSE, ssl |-> FALSE, server |-> "", path |-> ""]

RelativeLocation(p) ==
    [present |-> TRUE, relative |-> TRUE, ssl |-> FALSE, server |-> "", path |-> p]

AbsoluteLocation(s, h, p) ==
    [present |-> TRUE, relative |-> FALSE, ssl |-> s, server |-> h, path |-> p]

Locations ==
    {NoLocation, RelativeLocation("/a"), RelativeLocation("/b"),
     AbsoluteLocation(TRUE, "h1", "/b"), AbsoluteLocation(FALSE, "h1", "/a"),
     AbsoluteLocation(TRUE, "h2", "/a")}

StatusCodes == {200, 302, 401, 500}

Reasons == {"reason1", "reason2"}

Response(st, rs, hs, loc) ==
    [url |-> Endpoint, status_code |-> st, reason |-> rs, headers |-> hs, location |-> loc]

\* Every response the classifier is tried on.
Responses ==
    {Response(st, rs, hs, loc) :
        st \in StatusCodes, rs \in Reasons, hs \in HeaderLists, loc \in Locations}

NoResponse == Response(0, "", <<>>, NoLocation)

(*------------------------- the classifier on its own --------------------*)

InitClassify ==
    /\ probe = "classify"
    /\ pc = "Start"
    /\ endpoint = Endpoint
    /\ versions = <<>>
    /\ idx = 1
    /\ sent = <<>>
    /\ r \in Responses
    /\ outcome = NoOutcome
    /\ args = NoArgs

Classify ==
    /\ probe = "classify"
    /\ pc = "Start"
    /\ outcome' = _get_auth_method_from_response(r)
    /\ pc' = "Done"
    /\ UNCHANGED <<args, probe, endpoint, versions, idx, sent, r>>

NextClassify == Classify

SpecClassify == InitClassify /\ [][NextClassify]_vars

(*------------------------- claims on the classifier ---------------------*)

Classified == probe = "classify" /\ pc = "Done"

HasChallenge(response) ==
    \E i \in 1..Len(response.headers) : IsChallengeHeader(response.headers[i].key)

\* The lower-cased token list of the response's www-authenticate header.
ChallengeTokens(response) ==
    LET i == CHOOSE j \in 1..Len(response.headers) :
                 IsChallengeHeader(response.headers[j].key)
    IN _tokenize(Lower(response.headers[i].val))

\* The response with its www-authenticate value replaced.
WithChallenge(response, v) ==
    [response EXCEPT !.headers =
        [i \in 1..Len(response.headers) |->
            IF IsChallengeHeader(response.headers[i].key)
            THEN [key |-> response.headers[i].key, val |-> v]
            ELSE response.headers[i]]]

Orders(n) == {p \in [1..n -> 1..n] : \A i, j \in 1..n : p[i] = p[j] => i = j}

HasNone(toks) ==
    /\ S_digest \notin Range(toks)
    /\ S_ntlm \notin Range(toks)
    /\ S_basic \notin Range(toks)

\* C1: every 401 response with a www-authenticate header resolves Digest if the
\* header's lower-cased tokens contain 'digest', else NTLM if they contain
\* 'ntlm', else Basic if they contain 'basic', and the result is the same for
\* every order of the tokens in the header value.
C1_DigestNtlmBasic ==
    (Classified /\ r.status_code = 401 /\ HasChallenge(r)) =>
        LET toks == ChallengeTokens(r) IN
        /\ S_digest \in Range(toks) => outcome = Return(DIGEST)
        /\ (S_digest \notin Range(toks) /\ S_ntlm \in Range(toks)) => outcome = Return(NTLM)
        /\ (S_digest \notin Range(toks) /\ S_ntlm \notin Range(toks) /\ S_basic \in Range(toks))
               => outcome = Return(BASIC)
        /\ \A p \in Orders(Len(toks)) :
               _get_auth_method_from_response(
                   WithChallenge(r, Join([i \in 1..Len(toks) |-> toks[p[i]]], <<" ">>)))
               = outcome

\* C8: a 401 response with no www-authenticate header, or with one whose tokens
\* hold none of 'digest', 'ntlm', 'basic', is the UnauthorizedError failure.
C8_NoSchemeIsUnauthorized ==
    (Classified /\ r.status_code = 401
        /\ (~HasChallenge(r) \/ HasNone(ChallengeTokens(r)))) =>
        /\ outcome.kind = "raise"
        /\ outcome.exc = "UnauthorizedError"

\* C9: every status outside {200, 302, 401} is the TransportError carrying the
\* status and the reason, whatever the headers are.
C9_UnexpectedStatus ==
    (Classified /\ r.status_code \notin {200, 302, 401}) =>
        outcome = RaiseStatus("TransportError", "Unexpected response",
                              r.status_code, r.reason)

C9_Witness ==
    /\ Classified
    /\ r.status_code = 500
    /\ HasChallenge(r)
    /\ S_digest \in Range(ChallengeTokens(r))
    /\ r.location.present
    /\ outcome.exc = "TransportError"
    /\ outcome.status = 500

\* C10: a response with status 200 is NoAuth, whatever the headers are.
C10_OkIsNoAuth ==
    (Classified /\ r.status_code = 200) => outcome = Return(NOAUTH)

C10_Witness ==
    /\ Classified
    /\ r.status_code = 200
    /\ HasChallenge(r)
    /\ S_ntlm \in Range(ChallengeTokens(r))
    /\ r.location.present
    /\ outcome = Return(NOAUTH)

(*------------------------------ the probes ------------------------------*)

\* The protocol versions a caller may list.
Versions == {"Exchange2007", "Exchange2010"}

VersionLists == UNION {[1..n -> Versions] : n \in 0..MaxVersions}

\* dummy_xml: the ResolveNames payload of one version for one name.
dummy_xml(version, name) == [version |-> version, name |-> name]

NoData == [version |-> "", name |-> ""]

\* The payload the caller of the autodiscover probe supplies.
AutodiscoverData == [version |-> "", name |-> "autodiscover"]

Request(method, url, data) == [method |-> method, url |-> url, data |-> data]

\* The answers a server gives to a probe: one of every kind the classifier and
\* the redirect resolver tell apart.
ProbeResponses ==
    {Response(200, "reason1", <<OtherHeader>>, NoLocation),
     Response(401, "reason1",
              <<OtherHeader, [key |-> K_WWW_Authenticate,
                              val |-> Join(<<W_NTLM, W_Basic>>, <<",", " ">>)]>>, NoLocation),
     Response(401, "reason1", <<OtherHeader>>, NoLocation),
     Response(401, "reason1",
              <<OtherHeader, [key |-> K_WWW_Authenticate, val |-> W_RealmBare]>>, NoLocation),
     Response(302, "reason1", <<OtherHeader>>, NoLocation),
     Response(302, "reason1", <<OtherHeader>>, RelativeLocation("/a")),
     Response(302, "reason1", <<OtherHeader>>, RelativeLocation("/b")),
     Response(302, "reason1", <<OtherHeader>>, AbsoluteLocation(TRUE, "h2", "/a")),
     Response(302, "reason1", <<OtherHeader>>, AbsoluteLocation(FALSE, "h1", "/a")),
     Response(500, "reason2", <<OtherHeader>>, NoLocation)}

\* Where a probe's call ends, by what it returns or raises.
EndState(o) ==
    IF o.kind = "return" THEN "Resolved"
    ELSE IF o.exc = "RedirectError" THEN "RedirectPending"
    ELSE "Failed"

Exhausted == Raise("TransportError", "Failed to get auth type from service")

Init ==
    /\ probe \in {"autodiscover", "docs", "service"}
    /\ pc = "Start"
    /\ endpoint = Endpoint
    /\ versions \in (IF probe = "service" THEN VersionLists ELSE {<<>>})
    /\ idx = 1
    /\ sent = <<>>
    /\ r = NoResponse
    /\ outcome = NoOutcome
    /\ args = NoArgs

\* get_autodiscover_authtype: the session is opened.
AutodiscoverStart ==
    /\ probe = "autodiscover"
    /\ pc = "Start"
    /\ pc' = "Probing"
    /\ UNCHANGED <<args, probe, endpoint, versions, idx, sent, r, outcome>>

\* The HEAD step that never looks at the answer's status.
AutodiscoverHead_IgnoresRedirect ==
    /\ probe = "autodiscover"
    /\ pc = "Probing"
    /\ Len(sent) = 0
    /\ \E resp \in ProbeResponses :
          /\ sent' = Append(sent, [request |-> Request("HEAD", endpoint, NoData),
                                   response |-> resp])
          /\ r' = resp
    /\ UNCHANGED <<args, probe, endpoint, versions, idx, outcome, pc>>

\* get_autodiscover_authtype: the HEAD request and what its answer decides.
AutodiscoverHead ==
    /\ probe = "autodiscover"
    /\ pc = "Probing"
    /\ Len(sent) = 0
    /\ \E resp \in ProbeResponses :
          LET got == get_redirect_url(resp, TRUE, TRUE) IN
          /\ sent' = Append(sent, [request |-> Request("HEAD", endpoint, NoData),
                                   response |-> resp])
          /\ r' = resp
          /\ IF resp.status_code = 302 /\ got.kind = "raise"
             THEN IF got.exc = "RelativeRedirect"
                  THEN /\ outcome' = RaiseUrl("RedirectError", got.url)
                       /\ pc' = "RedirectPending"
                  ELSE /\ outcome' = got
                       /\ pc' = EndState(got)
             ELSE UNCHANGED <<outcome, pc>>
    /\ UNCHANGED <<args, probe, endpoint, versions, idx>>

\* The POST step that classifies the answer it already holds (the HEAD's).
AutodiscoverPost_ClassifiesHead ==
    /\ probe = "autodiscover"
    /\ pc = "Probing"
    /\ Len(sent) = 1
    /\ \E resp \in ProbeResponses :
          /\ sent' = Append(sent, [request |-> Request("POST", endpoint, AutodiscoverData),
                                   response |-> resp])
          /\ r' = resp
          /\ outcome' = _get_auth_method_from_response(r)
          /\ pc' = EndState(outcome')
    /\ UNCHANGED <<args, probe, endpoint, versions, idx>>

\* get_autodiscover_authtype: the POST request and the classification of its answer.
AutodiscoverPost ==
    /\ probe = "autodiscover"
    /\ pc = "Probing"
    /\ Len(sent) = 1
    /\ \E resp \in ProbeResponses :
          /\ sent' = Append(sent, [request |-> Request("POST", endpoint, AutodiscoverData),
                                   response |-> resp])
          /\ r' = resp
          /\ outcome' = _get_auth_method_from_response(resp)
          /\ pc' = EndState(outcome')
    /\ UNCHANGED <<args, probe, endpoint, versions, idx>>

\* get_docs_authtype: the session is opened.
DocsStart ==
    /\ probe = "docs"
    /\ pc = "Start"
    /\ pc' = "Probing"
    /\ UNCHANGED <<args, probe, endpoint, versions, idx, sent, r, outcome>>

\* get_docs_authtype: the GET request and the classification of its answer.
DocsGet ==
    /\ probe = "docs"
    /\ pc = "Probing"
    /\ \E resp \in ProbeResponses :
          /\ sent' = Append(sent, [request |-> Request("GET", endpoint, NoData),
                                   response |-> resp])
          /\ r' = resp
          /\ outcome' = _get_auth_method_from_response(resp)
          /\ pc' = EndState(outcome')
    /\ UNCHANGED <<args, probe, endpoint, versions, idx>>

\* get_service_authtype: the session is opened.
ServiceStart ==
    /\ probe = "service"
    /\ pc = "Start"
    /\ pc' = "Probing"
    /\ UNCHANGED <<args, probe, endpoint, versions, idx, sent, r, outcome>>

\* The loop turn without the try/except: a TransportError leaves the probe.
ServicePost_NoCatch ==
    /\ probe = "service"
    /\ pc = "Probing"
    /\ idx <= Len(versions)
    /\ \E resp \in ProbeResponses :
          LET auth_type == _get_auth_method_from_response(resp) IN
          /\ sent' = Append(sent, [request |-> Request("POST", endpoint,
                                                       dummy_xml(versions[idx], "name")),
                                   response |-> resp])
          /\ r' = resp
          /\ outcome' = auth_type
          /\ pc' = EndState(auth_type)
          /\ UNCHANGED idx
    /\ UNCHANGED <<args, probe, endpoint, versions>>

\* The loop turn without the `return`: the auth type is kept and the loop goes on.
ServicePost_NoReturn ==
    /\ probe = "service"
    /\ pc = "Probing"
    /\ idx <= Len(versions)
    /\ \E resp \in ProbeResponses :
          LET auth_type == _get_auth_method_from_response(resp) IN
          /\ sent' = Append(sent, [request |-> Request("POST", endpoint,
                                                       dummy_xml(versions[idx], "name")),
                                   response |-> resp])
          /\ r' = resp
          /\ IF IsTransportError(auth_type)
             THEN /\ idx' = idx + 1
                  /\ UNCHANGED <<outcome, pc>>
             ELSE IF auth_type.kind = "return"
             THEN /\ outcome' = auth_type
                  /\ idx' = idx + 1
                  /\ UNCHANGED pc
             ELSE /\ outcome' = auth_type
                  /\ pc' = EndState(auth_type)
                  /\ UNCHANGED idx
    /\ UNCHANGED <<args, probe, endpoint, versions>>

\* The loop turn whose `except` also takes UnauthorizedError.
ServicePost_CatchesUnauthorized ==
    /\ probe = "service"
    /\ pc = "Probing"
    /\ idx <= Len(versions)
    /\ \E resp \in ProbeResponses :
          LET auth_type == _get_auth_method_from_response(resp) IN
          /\ sent' = Append(sent, [request |-> Request("POST", endpoint,
                                                       dummy_xml(versions[idx], "name")),
                                   response |-> resp])
          /\ r' = resp
          /\ IF IsTransportError(auth_type) \/ (auth_type.kind = "raise" /\ auth_type.exc = "UnauthorizedError")
             THEN /\ idx' = idx + 1
                  /\ UNCHANGED <<outcome, pc>>
             ELSE /\ outcome' = auth_type
                  /\ pc' = EndState(auth_type)
                  /\ UNCHANGED idx
    /\ UNCHANGED <<args, probe, endpoint, versions>>

\* The loop turn whose `except` also takes RedirectError.
ServicePost_CatchesRedirect ==
    /\ probe = "service"
    /\ pc = "Probing"
    /\ idx <= Len(versions)
    /\ \E resp \in ProbeResponses :
          LET auth_type == _get_auth_method_from_response(resp) IN
          /\ sent' = Append(sent, [request |-> Request("POST", endpoint,
                                                       dummy_xml(versions[idx], "name")),
                                   response |-> resp])
          /\ r' = resp
          /\ IF IsTransportError(auth_type) \/ (auth_type.kind = "raise" /\ auth_type.exc = "RedirectError")
             THEN /\ idx' = idx + 1
                  /\ UNCHANGED <<outcome, pc>>
             ELSE /\ outcome' = auth_type
                  /\ pc' = EndState(auth_type)
                  /\ UNCHANGED idx
    /\ UNCHANGED <<args, probe, endpoint, versions>>

\* get_service_authtype: one turn of the loop over the versions.
ServicePost ==
    /\ probe = "service"
    /\ pc = "Probing"
    /\ idx <= Len(versions)
    /\ \E resp \in ProbeResponses :
          LET auth_type == _get_auth_method_from_response(resp) IN
          /\ sent' = Append(sent, [request |-> Request("POST", endpoint,
                                                       dummy_xml(versions[idx], "name")),
                                   response |-> resp])
          /\ r' = resp
          /\ IF IsTransportError(auth_type)
             THEN /\ idx' = idx + 1
                  /\ UNCHANGED <<outcome, pc>>
             ELSE /\ outcome' = auth_type
                  /\ pc' = EndState(auth_type)
                  /\ UNCHANGED idx
    /\ UNCHANGED <<args, probe, endpoint, versions>>

\* The final raise reached one turn early.
ServiceExhausted_OneShort ==
    /\ probe = "service"
    /\ pc = "Probing"
    /\ idx >= Len(versions)
    /\ outcome' = Exhausted
    /\ pc' = "Failed"
    /\ UNCHANGED <<args, probe, endpoint, versions, idx, sent, r>>

\* get_service_authtype: the loop is over and nothing was returned.
ServiceExhausted ==
    /\ probe = "service"
    /\ pc = "Probing"
    /\ idx > Len(versions)
    /\ outcome' = Exhausted
    /\ pc' = "Failed"
    /\ UNCHANGED <<args, probe, endpoint, versions, idx, sent, r>>

Next ==
    \/ AutodiscoverStart
    \/ AutodiscoverHead
    \/ AutodiscoverPost
    \/ DocsStart
    \/ DocsGet
    \/ ServiceStart
    \/ ServicePost
    \/ ServiceExhausted

Spec == Init /\ [][Next]_vars

(*--------------------------- claims on the probes ------------------------*)

Terminal == {"Resolved", "RedirectPending", "Failed"}

\* What the classifier makes of the answer to the i-th request.
Classification(i) == _get_auth_method_from_response(sent[i].response)

AllFailed == \A i \in 1..Len(sent) : IsTransportError(Classification(i))

\* C2: the service probe POSTs the versions in list order, one per turn; a
\* version whose answer is a transport-level failure is followed by the POST
\* of the next version, and the first answer that is none ends the probe with
\* its classification, no later version being posted.
C2_InOrderUntilResolved ==
    probe = "service" =>
        /\ Len(sent) <= Len(versions)
        /\ \A i \in 1..Len(sent) :
               sent[i].request = Request("POST", endpoint, dummy_xml(versions[i], "name"))
        /\ \A i \in 1..(Len(sent) - 1) : IsTransportError(Classification(i))
        /\ (Len(sent) > 0 /\ IsTransportError(Classification(Len(sent)))) =>
               \/ pc = "Probing"
               \/ Len(sent) = Len(versions) /\ outcome = Exhausted
        /\ (Len(sent) > 0 /\ ~IsTransportError(Classification(Len(sent)))) =>
               /\ pc \in Terminal
               /\ outcome = Classification(Len(sent))
        /\ (pc = "Probing" /\ Len(sent) < Len(versions)) =>
               /\ idx = Len(sent) + 1
               /\ ENABLED ServicePost

C2_Witness ==
    /\ probe = "service"
    /\ Len(versions) = 3
    /\ Len(sent) = 2
    /\ sent[1].response.status_code = 500
    /\ sent[2].response.status_code = 401
    /\ pc = "Resolved"
    /\ outcome = Return(NTLM)

\* C3: when every listed version's answer is a transport-level failure the
\* service probe ends in TransportError 'Failed to get auth type from service'
\* after one POST per listed version, and after none when the list is empty.
C3_ExhaustedVersions ==
    /\ (probe = "service" /\ pc \in Terminal /\ AllFailed) =>
           /\ pc = "Failed"
           /\ outcome = Exhausted
           /\ Len(sent) = Len(versions)
           /\ \A i \in 1..Len(sent) : sent[i].request.data.version = versions[i]
    /\ (probe = "service" /\ pc = "Probing" /\ AllFailed /\ Len(sent) = Len(versions)) =>
           ENABLED ServiceExhausted

C3_Witness ==
    /\ probe = "service"
    /\ pc = "Failed"
    /\ outcome = Exhausted
    /\ Len(versions) >= 2
    /\ Len(sent) = Len(versions)
    /\ AllFailed

\* The answer to the HEAD request redirects to another scheme or host.
HeadRedirectsElsewhere ==
    /\ Len(sent) >= 1
    /\ sent[1].response.status_code = 302
    /\ sent[1].response.location.present
    /\ ~SameSchemeAndHost(RedirectTarget(sent[1].response), sent[1].request.url)

\* The answer to the HEAD request redirects within the request's scheme and host.
HeadRedirectsRelative ==
    /\ Len(sent) >= 1
    /\ sent[1].response.status_code = 302
    /\ sent[1].response.location.present
    /\ SameSchemeAndHost(RedirectTarget(sent[1].response), sent[1].request.url)

\* C4: an autodiscover HEAD answered 302 to another scheme or host ends the
\* probe at once in RedirectError carrying the target, and no POST is issued.
C4_CrossDomainHeadAborts ==
    (probe = "autodiscover" /\ HeadRedirectsElsewhere) =>
        /\ pc = "RedirectPending"
        /\ outcome = RaiseUrl("RedirectError", RedirectTarget(sent[1].response))
        /\ Len(sent) = 1

C4_Witness ==
    /\ probe = "autodiscover"
    /\ HeadRedirectsElsewhere
    /\ sent[1].response.location.server = sent[1].request.url.server
    /\ pc = "RedirectPending"
    /\ outcome.url = [ssl |-> FALSE, server |-> "h1", path |-> "/a"]

\* After the HEAD, the autodiscover probe issues its one POST to the same
\* endpoint and ends with the classification of the POST's answer.
PostDecides ==
    /\ Len(sent) <= 2
    /\ Len(sent) = 1 => (pc = "Probing" /\ outcome = NoOutcome /\ ENABLED AutodiscoverPost)
    /\ Len(sent) = 2 =>
           /\ sent[2].request = Request("POST", endpoint, AutodiscoverData)
           /\ pc \in Terminal
           /\ outcome = Classification(2)

\* C5 as claimed: when the HEAD answer is no 302, or a 302 whose target keeps
\* the request's scheme and host, one POST follows and its classification is
\* the probe's outcome.
C5_PostDecides ==
    (probe = "autodiscover" /\ Len(sent) >= 1
        /\ (sent[1].response.status_code # 302 \/ HeadRedirectsRelative)) => PostDecides

\* C5 amended: when the HEAD answer is no 302, or a 302 whose target keeps the
\* request's scheme and host and is not the request's own URL, one POST follows
\* and its classification is the probe's outcome, whatever the HEAD answer held.
C5_PostDecidesUnlessCircular ==
    (probe = "autodiscover" /\ Len(sent) >= 1
        /\ \/ sent[1].response.status_code # 302
           \/ /\ HeadRedirectsRelative
              /\ RedirectTarget(sent[1].response) # sent[1].request.url) => PostDecides

C5_Witness ==
    /\ probe = "autodiscover"
    /\ Len(sent) = 2
    /\ sent[1].response.status_code = 401
    /\ HasChallenge(sent[1].response)
    /\ sent[2].response.status_code = 200
    /\ pc = "Resolved"
    /\ outcome = Return(NOAUTH)

AuthTypes == {NOAUTH, NTLM, BASIC, DIGEST}

\* What each state of a run holds.
C6_States ==
    /\ pc \in {"Start", "Probing"} \cup Terminal
    /\ pc = "Start" => (sent = <<>> /\ outcome = NoOutcome)
    /\ pc = "Probing" => outcome = NoOutcome
    /\ pc = "Resolved" => (outcome.kind = "return" /\ outcome.value \in AuthTypes)
    /\ pc = "RedirectPending" =>
           (outcome.kind = "raise" /\ outcome.exc = "RedirectError" /\ outcome.url # NoUrl)
    /\ pc = "Failed" => (outcome.kind = "raise" /\ outcome.exc # "RedirectError")
    /\ pc \in {"Start", "Probing"} => ENABLED Next

\* What each step of a run does.
C6_Steps ==
    /\ pc = "Start" => pc' \in {"Start", "Probing"}
    /\ pc = "Probing" => pc' \in {"Probing"} \cup Terminal
    /\ pc \in Terminal => UNCHANGED vars

\* C6: a run of any probe goes Start, Probing, then one of Resolved (an auth
\* type), RedirectPending (a redirect) or Failed; from these three no request
\* is issued, Probing is not re-entered and the outcome does not change.
C6_StartProbingTerminal == [](C6_States) /\ [][C6_Steps]_vars

C6_Witness ==
    /\ probe = "service"
    /\ pc = "Resolved"
    /\ Len(sent) = 2
    /\ Len(versions) = 3

\* The i-th request's answer is a 302 handed to the classifier.
ClassifiedRedirect(i) ==
    /\ sent[i].request.method # "HEAD"
    /\ sent[i].response.status_code = 302
    /\ sent[i].response.location.present

KeepsSchemeAndHost(i) ==
    SameSchemeAndHost(RedirectTarget(sent[i].response), sent[i].request.url)

\* C7 as claimed: a 302 to the request's own scheme and host is classified a
\* redirect, not a failure, and the probe surfaces neither redirect nor error
\* for it; a 302 to another host is classified a redirect to that target.
C7_RelativeRedirectIsNoFailure ==
    \A i \in 1..Len(sent) :
        ClassifiedRedirect(i) =>
            IF KeepsSchemeAndHost(i)
            THEN /\ Classification(i).kind = "raise" => Classification(i).exc = "RedirectError"
                 /\ i = Len(sent) => pc \notin {"Failed", "RedirectPending"}
            ELSE Classification(i) = RaiseUrl("RedirectError", RedirectTarget(sent[i].response))

\* C7 amended: a 302 to the request's own scheme and host is classified the
\* TransportError failure ('Circular redirect', or the resolver's own failure
\* when the target is the request's URL); the autodiscover and docs probes end
\* in that failure.  Only such a 302 answering the autodiscover HEAD is
\* resolved inside the probe, which goes on to its POST.  A 302 to another
\* scheme or host is classified RedirectError carrying the target.
C7_RelativeRedirectIsCircular ==
    /\ \A i \in 1..Len(sent) :
           ClassifiedRedirect(i) =>
               IF KeepsSchemeAndHost(i)
               THEN /\ Classification(i).kind = "raise"
                    /\ Classification(i).exc = "TransportError"
                    /\ Classification(i).msg \in {"Circular redirect", "Redirect to same location"}
                    /\ probe \in {"autodiscover", "docs"} =>
                           (pc = "Failed" /\ outcome = Classification(i))
               ELSE Classification(i) = RaiseUrl("RedirectError", RedirectTarget(sent[i].response))
    /\ (probe = "autodiscover" /\ HeadRedirectsRelative
           /\ RedirectTarget(sent[1].response) # sent[1].request.url) =>
           /\ Len(sent) = 1 => (pc = "Probing" /\ outcome = NoOutcome)
           /\ Len(sent) = 2 => outcome = Classification(2)

C7_Witness ==
    /\ probe = "docs"
    /\ Len(sent) = 1
    /\ sent[1].response.status_code = 302
    /\ sent[1].response.location = RelativeLocation("/b")
    /\ pc = "Failed"
    /\ outcome = Raise("TransportError", "Circular redirect")

(*------------------------- the tokenizer on its own ---------------------*)

\* The characters the texts handed to _tokenize are made of.
TokenChars == {"a", "b", " ", ",", "\""}

\* 'ntlm, basic realm="a, b"'
ExampleChallenge ==
    <<"n", "t", "l", "m", ",", " ", "b", "a", "s", "i", "c", " ",
      "r", "e", "a", "l", "m", "=", "\"", "a", ",", " ", "b", "\"">>

TokenizerInputs == (UNION {[1..n -> TokenChars] : n \in 0..MaxLen}) \cup {ExampleChallenge}

InitTokenize ==
    /\ probe = "tokenize"
    /\ pc = "Start"
    /\ endpoint = Endpoint
    /\ versions = <<>>
    /\ idx = 1
    /\ sent = <<>>
    /\ r = NoResponse
    /\ outcome = NoOutcome
    /\ args \in {[val |-> v] : v \in TokenizerInputs}

Tokenize ==
    /\ probe = "tokenize"
    /\ pc = "Start"
    /\ outcome' = Return(_tokenize(args.val))
    /\ pc' = "Done"
    /\ UNCHANGED <<args, probe, endpoint, versions, idx, sent, r>>

NextTokenize == Tokenize

SpecTokenize == InitTokenize /\ [][NextTokenize]_vars

(*------------------------- claims on the tokenizer ----------------------*)

Tokenized == probe = "tokenize" /\ pc = "Done"

\* The number of double quotes of s before position i.
QuotesBefore(s, i) == Cardinality({j \in 1..(i - 1) : s[j] = "\""})

\* Position i of s lies within quotes: an odd number of quotes precede it.
InQuotes(s, i) == QuotesBefore(s, i) % 2 = 1

\* The spans of s from an opening quote to its closing quote.
QuotedSpans(s) ==
    {sp \in (1..Len(s)) \X (1..Len(s)) :
        /\ sp[1] < sp[2]
        /\ s[sp[1]] = "\"" /\ s[sp[2]] = "\""
        /\ ~InQuotes(s, sp[1])
        /\ \A j \in (sp[1] + 1)..(sp[2] - 1) : s[j] # "\""}

\* s occurs in t as one piece.
Contains(t, s) == \E o \in 1..(Len(t) - Len(s) + 1) : SubSeq(t, o, o + Len(s) - 1) = s

\* The tokens from the k-th on occur in s from position `from` on, one after another.
RECURSIVE OccurInOrder(_, _, _, _)
OccurInOrder(toks, k, s, from) ==
    IF k > Len(toks) THEN TRUE
    ELSE \E o \in from..(Len(s) - Len(toks[k]) + 1) :
            /\ SubSeq(s, o, o + Len(toks[k]) - 1) = toks[k]
            /\ OccurInOrder(toks, k + 1, s, o + Len(toks[k]))

\* C11: every span of the input from an opening double quote to its closing
\* double quote, spaces and commas included, lies whole within one token, the
\* tokens follow the input's order, and 'ntlm, basic realm="a, b"' gives
\* ['ntlm', 'basic', 'realm="a, b"'].
C11_QuotedSpansIntact ==
    Tokenized =>
        LET val == args.val
            toks == outcome.value
        IN /\ \A sp \in QuotedSpans(val) :
                  \E k \in 1..Len(toks) : Contains(toks[k], SubSeq(val, sp[1], sp[2]))
           /\ OccurInOrder(toks, 1, val, 1)
           /\ val = ExampleChallenge =>
                  toks = <<S_ntlm, S_basic,
                           <<"r", "e", "a", "l", "m", "=", "\"", "a", ",", " ", "b", "\"">> >>

C11_Witness ==
    /\ Tokenized
    /\ args.val = <<"a", "\"", ",", " ", "\"">>
    /\ outcome.value = << <<"a", "\"", ",", " ", "\"">> >>

\* s without its spaces and commas that lie outside quotes.
RECURSIVE KeptUpTo(_, _)
KeptUpTo(s, n) ==
    IF n = 0 THEN <<>>
    ELSE IF s[n] \in {" ", ","} /\ ~InQuotes(s, n)
    THEN KeptUpTo(s, n - 1)
    ELSE Append(KeptUpTo(s, n - 1), s[n])

RECURSIVE ConcatUpTo(_, _)
ConcatUpTo(toks, m) == IF m = 0 THEN <<>> ELSE ConcatUpTo(toks, m - 1) \o toks[m]

\* C12: no token is empty or ','; a space or comma within a token lies within
\* quotes; where a quote closes a token ends, separator or not; and the tokens
\* put together are the input without its unquoted spaces and commas.
C12_TokensPartitionInput ==
    Tokenized =>
        LET val == args.val
            toks == outcome.value
        IN /\ \A k \in 1..Len(toks) : toks[k] # <<>> /\ toks[k] # <<",">>
           /\ \A k \in 1..Len(toks) : \A q \in 1..Len(toks[k]) :
                  toks[k][q] \in {" ", ","} => InQuotes(toks[k], q)
           /\ \A j \in 1..Len(val) :
                  (val[j] = "\"" /\ InQuotes(val, j)) =>
                      \E m \in 1..Len(toks) :
                          /\ ConcatUpTo(toks, m) = KeptUpTo(val, j)
                          /\ toks[m][Len(toks[m])] = "\""
           /\ ConcatUpTo(toks, Len(toks)) = KeptUpTo(val, Len(val))

C12_Witness ==
    /\ Tokenized
    /\ args.val = <<"a", "\"", " ", "\"", "b">>
    /\ outcome.value = << <<"a", "\"", " ", "\"">>, <<"b">> >>

(*------------------------------ _test_response --------------------------*)

\* A request-signing object of the class named, or None (class NoneType).
AuthInstance(cls, username, password) ==
    [cls |-> cls, username |-> username, password |-> password]

None == AuthInstance("NoneType", <<>>, <<>>)

\* isinstance(auth, cls)
IsInstance(auth, cls) == auth.cls = cls

S_unauthorized == <<"u", "n", "a", "u", "t", "h", "o", "r", "i", "z", "e", "d">>

\* str.count(sub): the occurrences of sub in txt, counted from the left without overlap.
RECURSIVE CountFrom(_, _, _)
CountFrom(txt, sub, i) ==
    IF i + Len(sub) - 1 > Len(txt) THEN 0
    ELSE IF SubSeq(txt, i, i + Len(sub) - 1) = sub
    THEN 1 + CountFrom(txt, sub, i + Len(sub))
    ELSE CountFrom(txt, sub, i + 1)

_is_unauthorized(txt) == CountFrom(Lower(txt), S_unauthorized, 1) > 0

\* util.is_xml: the text is one well-formed element.  The bodies of the model
\* use the one tag name a; between tags any character but < and > is text.
T_open  == <<"<", "a", ">">>
T_close == <<"<", "/", "a", ">">>

StartsWithAt(s, i, prefix) ==
    /\ i + Len(prefix) - 1 <= Len(s)
    /\ SubSeq(s, i, i + Len(prefix) - 1) = prefix

RECURSIVE WellFormedFrom(_, _, _)
WellFormedFrom(s, i, depth) ==
    IF i > Len(s) THEN depth = 0 /\ Len(s) > 0
    ELSE IF depth = 0 /\ i > 1 THEN FALSE
    ELSE IF StartsWithAt(s, i, T_open) THEN WellFormedFrom(s, i + Len(T_open), depth + 1)
    ELSE IF StartsWithAt(s, i, T_close)
    THEN depth >= 1 /\ WellFormedFrom(s, i + Len(T_close), depth - 1)
    ELSE IF s[i] \in {"<", ">"} THEN FALSE
    ELSE depth >= 1 /\ WellFormedFrom(s, i + 1, depth)

is_xml(text) == WellFormedFrom(text, 1, 0)

\* raise TransportError('Unknown response from Exchange:\n\n%s' % resp)
RaiseBody(e, m, body) ==
    [kind |-> "raise", exc |-> e, value |-> body, msg |-> m, url |-> NoUrl,
     status |-> 0, reason |-> ""]

\* _test_response with the is_xml test moved behind the 'unauthorized' test.
test_response_UnauthorizedFirst(auth, response) ==
    LET resp == response.text IN
    IF _is_unauthorized(resp)
    THEN Raise("UnauthorizedError", "Unauthorized (non-401)")
    ELSE IF is_xml(resp)
    THEN Return(TRUE)
    ELSE IF IsInstance(auth, "HttpNtlmAuth") /\ resp = <<>>
    THEN Raise("UnauthorizedError", "Unauthorized (NTLM, empty response)")
    ELSE RaiseBody("TransportError", "Unknown response from Exchange", resp)

\* _test_response without the isinstance test: an empty body is unauthorized
\* whatever signed the request.
test_response_EmptyForAnyAuth(auth, response) ==
    LET resp == response.text IN
    IF is_xml(resp)
    THEN Return(TRUE)
    ELSE IF _is_unauthorized(resp)
    THEN Raise("UnauthorizedError", "Unauthorized (non-401)")
    ELSE IF resp = <<>>
    THEN Raise("UnauthorizedError", "Unauthorized (NTLM, empty response)")
    ELSE RaiseBody("TransportError", "Unknown response from Exchange", resp)

_test_response(auth, response) ==
    LET resp == response.text IN
    IF is_xml(resp)
    THEN Return(TRUE)
    ELSE IF _is_unauthorized(resp)
    THEN Raise("UnauthorizedError", "Unauthorized (non-401)")
    ELSE IF IsInstance(auth, "HttpNtlmAuth") /\ resp = <<>>
    THEN Raise("UnauthorizedError", "Unauthorized (NTLM, empty response)")
    ELSE RaiseBody("TransportError", "Unknown response from Exchange", resp)

\* The pieces a response body is made of.
B_Unauthorized == <<"U", "n", "a", "u", "t", "h", "o", "r", "i", "z", "e", "d">>
B_x            == <<"x">>

BodyPieces == {T_open, T_close, B_Unauthorized, B_x}

Bodies == {Join(ps, <<>>) : ps \in UNION {[1..n -> BodyPieces] : n \in 0..MaxPieces}}

U_user   == <<"u", "s", "e", "r">>
U_email  == <<"u", "@", "h">>
P_secret == <<"p", "w">>

ValidatorAuths ==
    {None} \cup {AuthInstance(c, U_user, P_secret) :
                    c \in {"HttpNtlmAuth", "HTTPBasicAuth", "HTTPDigestAuth"}}

InitValidate ==
    /\ probe = "validate"
    /\ pc = "Start"
    /\ endpoint = Endpoint
    /\ versions = <<>>
    /\ idx = 1
    /\ sent = <<>>
    /\ r = NoResponse
    /\ outcome = NoOutcome
    /\ args \in {[auth |-> a, response |-> [status_code |-> st, text |-> b]] :
                    a \in ValidatorAuths, st \in StatusCodes, b \in Bodies}

TestResponse ==
    /\ probe = "validate"
    /\ pc = "Start"
    /\ outcome' = _test_response(args.auth, args.response)
    /\ pc' = "Done"
    /\ UNCHANGED <<args, probe, endpoint, versions, idx, sent, r>>

NextValidate == TestResponse

SpecValidate == InitValidate /\ [][NextValidate]_vars

(*-------------------------- claims on the validator ---------------------*)

Validated == probe = "validate" /\ pc = "Done"

SaysUnauthorized(text) == Contains(Lower(text), S_unauthorized)

\* C13: for a body that is no well-formed XML and does not hold 'unauthorized'
\* in any case, the outcome is UnauthorizedError exactly when the auth in use
\* is NTLM and the body is empty, whatever the status; otherwise it is the
\* TransportError carrying the body.
C13_NtlmEmptyBody ==
    (Validated /\ ~is_xml(args.response.text) /\ ~SaysUnauthorized(args.response.text)) =>
        /\ outcome.kind = "raise"
        /\ outcome.exc = "UnauthorizedError" <=>
               (args.auth.cls = "HttpNtlmAuth" /\ Len(args.response.text) = 0)
        /\ outcome.exc # "UnauthorizedError" =>
               /\ outcome.exc = "TransportError"
               /\ outcome.msg = "Unknown response from Exchange"
               /\ outcome.value = args.response.text

C13_Witness ==
    /\ Validated
    /\ args.response.status_code = 200
    /\ args.response.text = <<>>
    /\ args.auth.cls = "HttpNtlmAuth"
    /\ outcome.exc = "UnauthorizedError"

\* C14: a well-formed XML body is valid for every auth, also when it holds
\* 'unauthorized'; a body that is no XML and holds 'unauthorized' is the
\* UnauthorizedError 'Unauthorized (non-401)' for every auth, before the rule
\* on NTLM and empty bodies and before the TransportError.
C14_XmlFirstThenUnauthorized ==
    Validated =>
        /\ is_xml(args.response.text) =>
               (outcome.kind = "return" /\ outcome.value = TRUE)
        /\ (~is_xml(args.response.text) /\ SaysUnauthorized(args.response.text)) =>
               /\ outcome.kind = "raise"
               /\ outcome.exc = "UnauthorizedError"
               /\ outcome.msg = "Unauthorized (non-401)"

C14_Witness ==
    /\ Validated
    /\ args.response.text = T_open \o B_Unauthorized \o T_close
    /\ args.auth.cls = "HttpNtlmAuth"
    /\ outcome.kind = "return"

(*----------------------------- get_auth_instance ------------------------*)

\* The mapping a mistaken edit would give a member for UNKNOWN.
AUTH_TYPE_MAP_WithUnknown ==
    [t \in {NTLM, BASIC, DIGEST, NOAUTH, UNKNOWN} |->
        IF t = NTLM THEN "HttpNtlmAuth"
        ELSE IF t = BASIC THEN "HTTPBasicAuth"
        ELSE IF t = DIGEST THEN "HTTPDigestAuth"
        ELSE "NoneType"]

\* The class that signs for each auth type; "NoneType" where the value is None.
AUTH_TYPE_MAP ==
    [t \in {NTLM, BASIC, DIGEST, NOAUTH} |->
        IF t = NTLM THEN "HttpNtlmAuth"
        ELSE IF t = BASIC THEN "HTTPBasicAuth"
        ELSE IF t = DIGEST THEN "HTTPDigestAuth"
        ELSE "NoneType"]

\* credentials.py: the kinds of identity; EMAIL is the email-style one.
EMAIL == "email"
KIND_DOMAIN == "domain"
KIND_UPN    == "upn"

Credentials(username, password, type) ==
    [present |-> TRUE, username |-> username, password |-> password, type |-> type]

\* A call that hands over no credentials object.
NoCredentials == [present |-> FALSE, username |-> <<>>, password |-> <<>>, type |-> ""]

\* get_auth_instance that prefixes every NTLM username, whatever the kind.
get_auth_instance_PrefixesAllNtlm(credentials, auth_type) ==
    IF auth_type \notin DOMAIN AUTH_TYPE_MAP
    THEN Raise("ValueError", "Authentication type not supported")
    ELSE IF AUTH_TYPE_MAP[auth_type] = "NoneType"
    THEN Return(None)
    ELSE IF ~credentials.present
    THEN Raise("AttributeError", "'NoneType' object has no attribute 'username'")
    ELSE LET username == IF auth_type = NTLM
                         THEN <<"\\">> \o credentials.username
                         ELSE credentials.username
         IN Return(AuthInstance(AUTH_TYPE_MAP[auth_type], username, credentials.password))

get_auth_instance(credentials, auth_type) ==
    IF auth_type \notin DOMAIN AUTH_TYPE_MAP
    THEN Raise("ValueError", "Authentication type not supported")
    ELSE IF AUTH_TYPE_MAP[auth_type] = "NoneType"
    THEN Return(None)
    ELSE IF ~credentials.present
    THEN Raise("AttributeError", "'NoneType' object has no attribute 'username'")
    ELSE LET username == IF auth_type = NTLM /\ credentials.type = EMAIL
                         THEN <<"\\">> \o credentials.username
                         ELSE credentials.username
         IN Return(AuthInstance(AUTH_TYPE_MAP[auth_type], username, credentials.password))

U_domain  == <<"\\", "u">>
P_secret2 == <<"\\", "p">>

CredentialsInputs ==
    {NoCredentials} \cup
    {Credentials(u, p, t) : u \in {U_user, U_email, U_domain}, p \in {P_secret, P_secret2},
                            t \in {EMAIL, KIND_DOMAIN, KIND_UPN}}

AuthTypeInputs == {NOAUTH, NTLM, BASIC, DIGEST, UNKNOWN, "ntlm", "kerberos"}

InitAuth ==
    /\ probe = "auth"
    /\ pc = "Start"
    /\ endpoint = Endpoint
    /\ versions = <<>>
    /\ idx = 1
    /\ sent = <<>>
    /\ r = NoResponse
    /\ outcome = NoOutcome
    /\ args \in {[credentials |-> c, auth_type |-> t] :
                    c \in CredentialsInputs, t \in AuthTypeInputs}

GetAuthInstance ==
    /\ probe = "auth"
    /\ pc = "Start"
    /\ outcome' = get_auth_instance(args.credentials, args.auth_type)
    /\ pc' = "Done"
    /\ UNCHANGED <<args, probe, endpoint, versions, idx, sent, r>>

NextAuth == GetAuthInstance

SpecAuth == InitAuth /\ [][NextAuth]_vars

(*------------------------ claims on get_auth_instance -------------------*)

Built == probe = "auth" /\ pc = "Done"

\* C15: the strategy's username is a backslash followed by the credential's
\* username exactly when the auth type is NTLM and the credential kind is
\* email-style; for Basic, Digest and NTLM with another kind the username is
\* the credential's, and the password is the credential's in every case.
C15_BackslashForNtlmEmail ==
    (Built /\ args.credentials.present /\ args.auth_type \in {NTLM, BASIC, DIGEST}) =>
        /\ outcome.kind = "return"
        /\ outcome.value.password = args.credentials.password
        /\ outcome.value.username = <<"\\">> \o args.credentials.username <=>
               (args.auth_type = NTLM /\ args.credentials.type = EMAIL)
        /\ ~(args.auth_type = NTLM /\ args.credentials.type = EMAIL) =>
               outcome.value.username = args.credentials.username

C15_Witness ==
    /\ Built
    /\ args.auth_type = NTLM
    /\ args.credentials = Credentials(U_email, P_secret, EMAIL)
    /\ outcome.kind = "return"
    /\ outcome.value = AuthInstance("HttpNtlmAuth", <<"\\", "u", "@", "h">>, P_secret)

\* C16: NoAuth gives None and touches no credentials; every auth type but
\* NoAuth, Basic, Digest and NTLM, UNKNOWN among them, gives ValueError and
\* neither a strategy nor None.
C16_NoAuthAndUnsupported ==
    Built =>
        /\ args.auth_type = NOAUTH => (outcome.kind = "return" /\ outcome.value = None)
        /\ args.auth_type \notin {NOAUTH, BASIC, DIGEST, NTLM} =>
               (outcome.kind = "raise" /\ outcome.exc = "ValueError")

C16_Witness ==
    /\ Built
    /\ args.auth_type = UNKNOWN
    /\ args.credentials.present
    /\ outcome.kind = "raise"
    /\ outcome.exc = "ValueError"

(*----------------------------------- wrap --------------------------------*)

SOAPNS == "http://schemas.xmlsoap.org/soap/envelope/"
MNS    == "http://schemas.microsoft.com/exchange/services/2006/messages"
TNS    == "http://schemas.microsoft.com/exchange/services/2006/types"

\* An XML element: tag, attributes in order, text, children in order.
Element(tag, attrs, text, children) ==
    [tag |-> tag, attrs |-> attrs, text |-> text, children |-> children]

\* util.create_element
create_element(tag, attrs) == Element(tag, attrs, "", <<>>)

\* parent.append(child)
AppendChild(parent, child) == [parent EXCEPT !.children = Append(@, child)]

\* util.add_xml_child: a new child of the name given, holding the value as text.
add_xml_child(tree, name, value) == AppendChild(tree, Element(name, <<>>, value, <<>>))

\* util.xml_to_str: the document as the sequence of its markup, element by
\* element: start tag, text, children, end tag.
Markup(ev, tag, attrs, text) == [ev |-> ev, tag |-> tag, attrs |-> attrs, text |-> text]

RECURSIVE Serialize(_)
RECURSIVE SerializeAll(_, _)
Serialize(el) ==
    <<Markup("start", el.tag, el.attrs, "")>>
    \o (IF el.text # "" THEN <<Markup("text", "", <<>>, el.text)>> ELSE <<>>)
    \o SerializeAll(el.children, 1)
    \o <<Markup("end", el.tag, <<>>, "")>>

SerializeAll(els, i) ==
    IF i > Len(els) THEN <<>> ELSE Serialize(els[i]) \o SerializeAll(els, i + 1)

xml_to_str(tree, encoding, xml_declaration) ==
    [xml_declaration |-> xml_declaration, encoding |-> encoding, markup |-> Serialize(tree)]

\* credentials.py: the access types of an account.
IMPERSONATION == "impersonation"
DELEGATE      == "delegate"

Account(access_type, primary_smtp_address) ==
    [present |-> TRUE, access_type |-> access_type,
     primary_smtp_address |-> primary_smtp_address]

\* account=None
NoAccount == [present |-> FALSE, access_type |-> "", primary_smtp_address |-> ""]

EWSTimeZone(ms_id) == [present |-> TRUE, ms_id |-> ms_id]

\* ewstimezone=None
NoTimeZone == [present |-> FALSE, ms_id |-> ""]

\* The header as wrap builds it, block by block.
HeaderWithVersion(version) ==
    AppendChild(create_element("s:Header", <<>>),
                create_element("t:RequestServerVersion", << <<"Version", version>> >>))

ImpersonationBlock(account) ==
    AppendChild(create_element("t:ExchangeImpersonation", <<>>),
                add_xml_child(create_element("t:ConnectingSID", <<>>),
                              "t:PrimarySmtpAddress", account.primary_smtp_address))

TimeZoneBlock(ewstimezone) ==
    AppendChild(create_element("t:TimeZoneContext", <<>>),
                create_element("t:TimeZoneDefinition", << <<"Id", ewstimezone.ms_id>> >>))

EnvelopeRoot ==
    create_element("s:Envelope",
                   << <<"xmlns:s", SOAPNS>>, <<"xmlns:t", TNS>>, <<"xmlns:m", MNS>> >>)

\* wrap that adds the impersonation block for every account, whatever its access type.
wrap_ImpersonatesAnyAccount(content, version, account, ewstimezone, encoding) ==
    LET header1 == HeaderWithVersion(version)
        header2 == IF account.present
                   THEN AppendChild(header1, ImpersonationBlock(account))
                   ELSE header1
        header3 == IF ewstimezone.present
                   THEN AppendChild(header2, TimeZoneBlock(ewstimezone))
                   ELSE header2
        body == AppendChild(create_element("s:Body", <<>>), content)
        envelope == AppendChild(AppendChild(EnvelopeRoot, header3), body)
    IN Return(xml_to_str(envelope, encoding, TRUE))

wrap(content, version, account, ewstimezone, encoding) ==
    LET header1 == HeaderWithVersion(version)
        header2 == IF account.present /\ account.access_type = IMPERSONATION
                   THEN AppendChild(header1, ImpersonationBlock(account))
                   ELSE header1
        header3 == IF ewstimezone.present
                   THEN AppendChild(header2, TimeZoneBlock(ewstimezone))
                   ELSE header2
        body == AppendChild(create_element("s:Body", <<>>), content)
        envelope == AppendChild(AppendChild(EnvelopeRoot, header3), body)
    IN Return(xml_to_str(envelope, encoding, TRUE))

\* The payloads handed to wrap; the last looks like a header block.
Contents ==
    {Element("m:ResolveNames", << <<"ReturnFullContactData", "false">> >>, "",
             <<Element("m:UnresolvedEntry", <<>>, "name", <<>>)>>),
     Element("m:GetFolder", <<>>, "", <<>>),
     Element("t:ExchangeImpersonation", <<>>, "", <<Element("t:ConnectingSID", <<>>, "", <<>>)>>)}

Accounts ==
    {NoAccount} \cup
    {Account(a, p) : a \in {IMPERSONATION, DELEGATE}, p \in {"a@h1", "b@h1"}}

TimeZones == {NoTimeZone, EWSTimeZone("UTC"), EWSTimeZone("Romance Standard Time")}

Encodings == {"utf-8", "latin-1"}

InitWrap ==
    /\ probe = "wrap"
    /\ pc = "Start"
    /\ endpoint = Endpoint
    /\ versions = <<>>
    /\ idx = 1
    /\ sent = <<>>
    /\ r = NoResponse
    /\ outcome = NoOutcome
    /\ args \in {[content |-> c, version |-> v, account |-> a, ewstimezone |-> z,
                  encoding |-> e] :
                    c \in Contents, v \in Versions, a \in Accounts, z \in TimeZones,
                    e \in Encodings}

Wrap ==
    /\ probe = "wrap"
    /\ pc = "Start"
    /\ outcome' = wrap(args.content, args.version, args.account, args.ewstimezone,
                       args.encoding)
    /\ pc' = "Done"
    /\ UNCHANGED <<args, probe, endpoint, versions, idx, sent, r>>

NextWrap == Wrap

SpecWrap == InitWrap /\ [][NextWrap]_vars

(*------------------------------ claims on wrap --------------------------*)

Wrapped == probe = "wrap" /\ pc = "Done"

\* The element a sequence of markup spells, read back with a stack of the
\* elements still open.
RECURSIVE ParseFrom(_, _, _)
ParseFrom(ms, i, stack) ==
    IF i > Len(ms) THEN stack[1]
    ELSE IF ms[i].ev = "start"
    THEN ParseFrom(ms, i + 1, Append(stack, Element(ms[i].tag, ms[i].attrs, "", <<>>)))
    ELSE IF ms[i].ev = "text"
    THEN ParseFrom(ms, i + 1, [stack EXCEPT ![Len(stack)].text = ms[i].text])
    ELSE IF Len(stack) = 1
    THEN ParseFrom(ms, i + 1, stack)
    ELSE LET top == stack[Len(stack)]
             rest == SubSeq(stack, 1, Len(stack) - 1)
         IN ParseFrom(ms, i + 1, [rest EXCEPT ![Len(rest)].children = Append(@, top)])

Parse(ms) == ParseFrom(ms, 1, <<>>)

Impersonating == args.account.present /\ args.account.access_type = IMPERSONATION

TagCount(els, tag) == Cardinality({i \in 1..Len(els) : els[i].tag = tag})

\* C17: the envelope's children are Header then Body; the Header holds, in
\* this order, one version element always, one impersonation block exactly
\* when an impersonation identity is set and one timezone-context block
\* exactly when a timezone is set; the Body holds the payload and nothing else.
C17_EnvelopeShape ==
    Wrapped =>
        LET envelope == Parse(outcome.value.markup)
            header == envelope.children[1]
            body == envelope.children[2]
            imp == IF Impersonating THEN 1 ELSE 0
            tz == IF args.ewstimezone.present THEN 1 ELSE 0
        IN /\ envelope.tag = "s:Envelope"
           /\ Len(envelope.children) = 2
           /\ header.tag = "s:Header"
           /\ body.tag = "s:Body"
           /\ Len(header.children) = 1 + imp + tz
           /\ header.children[1] =
                  Element("t:RequestServerVersion", << <<"Version", args.version>> >>, "", <<>>)
           /\ TagCount(header.children, "t:RequestServerVersion") = 1
           /\ TagCount(header.children, "t:ExchangeImpersonation") = imp
           /\ TagCount(header.children, "t:TimeZoneContext") = tz
           /\ imp = 1 =>
                  header.children[2] =
                      Element("t:ExchangeImpersonation", <<>>, "",
                          <<Element("t:ConnectingSID", <<>>, "",
                              <<Element("t:PrimarySmtpAddress", <<>>,
                                        args.account.primary_smtp_address, <<>>)>>)>>)
           /\ tz = 1 =>
                  header.children[1 + imp + tz] =
                      Element("t:TimeZoneContext", <<>>, "",
                          <<Element("t:TimeZoneDefinition",
                                    << <<"Id", args.ewstimezone.ms_id>> >>, "", <<>>)>>)
           /\ body.children = <<args.content>>

C17_Witness ==
    /\ Wrapped
    /\ Impersonating
    /\ args.ewstimezone.present
    /\ args.content.tag = "t:ExchangeImpersonation"
    /\ Len(Parse(outcome.value.markup).children[1].children) = 3

(*------------------ claims on what leaves the service probe --------------*)

\* The answer to the i-th request is a 401 that the classifier turns into
\* UnauthorizedError.
AnswersUnauthorized(i) ==
    /\ sent[i].response.status_code = 401
    /\ Classification(i).kind = "raise"
    /\ Classification(i).exc = "UnauthorizedError"

\* C18: in the service probe a 401 answer without a compatible scheme ends the
\* probe at once in UnauthorizedError: it is the last request sent, no turn of
\* the loop and no final raise follows, and the outcome is not the
\* exhausted-versions failure.
C18_UnauthorizedLeavesProbe ==
    probe = "service" =>
        \A i \in 1..Len(sent) :
            AnswersUnauthorized(i) =>
                /\ i = Len(sent)
                /\ pc = "Failed"
                /\ outcome = Classification(i)
                /\ outcome.exc = "UnauthorizedError"
                /\ outcome # Exhausted
                /\ ~ENABLED ServicePost
                /\ ~ENABLED ServiceExhausted

C18_Witness ==
    /\ probe = "service"
    /\ Len(versions) = 3
    /\ Len(sent) = 1
    /\ AnswersUnauthorized(1)
    /\ pc = "Failed"
    /\ outcome.exc = "UnauthorizedError"

\* The answer to the i-th request is a 302 to another scheme or host.
AnswersRedirectElsewhere(i) ==
    /\ sent[i].response.status_code = 302
    /\ sent[i].response.location.present
    /\ ~SameSchemeAndHost(RedirectTarget(sent[i].response), sent[i].request.url)

\* C19: in the service probe a 302 answer to another scheme or host stops the
\* probe at that version and hands the redirect, with its target, to the
\* caller: it is the last request sent, no later version is posted, and the
\* outcome is not the exhausted-versions failure.
C19_RedirectLeavesProbe ==
    probe = "service" =>
        \A i \in 1..Len(sent) :
            AnswersRedirectElsewhere(i) =>
                /\ i = Len(sent)
                /\ pc = "RedirectPending"
                /\ outcome.kind = "raise"
                /\ outcome.exc = "RedirectError"
                /\ outcome.url = RedirectTarget(sent[i].response)
                /\ ~IsTransportError(outcome)
                /\ outcome # Exhausted
                /\ ~ENABLED ServicePost
                /\ ~ENABLED ServiceExhausted

C19_Witness ==
    /\ probe = "service"
    /\ Len(versions) = 3
    /\ Len(sent) = 2
    /\ IsTransportError(Classification(1))
    /\ AnswersRedirectElsewhere(2)
    /\ pc = "RedirectPending"
    /\ outcome.exc = "RedirectError"

====
